---- MODULE Spec2Model ----
(***************************************************************************)
(* Balance store (useTokenBalanceStore) and the BalanceTracker component   *)
(* that drives it: the two retry loops of getTokenBalance and              *)
(* getAllTokenBalances, the timers the component sets on wallet connect,    *)
(* the periodic refresh, the manual refresh and its deferred follow-up,     *)
(* and the price cache (priceData) that fetchPriceData fills.              *)
(*                                                                         *)
(* JavaScript runs one task at a time: every action below is one           *)
(* run-to-completion step (a handler up to its next await, or the          *)
(* continuation of an await up to the next one).  Time is counted in ms    *)
(* and advances in steps of BACKOFF_MS, the greatest common divisor of    *)
(* every delay in the code; every timer holds the time left until it is   *)
(* due, and a Date is held as the time elapsed since it was taken.        *)
(***************************************************************************)
EXTENDS Integers, Sequences, FiniteSets, Bags, TLC

VARIABLES
    balances,     \* store: balances.SOL, balances.GOLD (rationals <<num, den>>)
    isLoading,    \* store: isLoading
    publicKey,    \* useWallet().publicKey: NoKey or a wallet
    autoRefresh,  \* component prop
    lastUpdated,  \* component state: NoDate, or the age of the Date it holds
    tasks,        \* the asynchronous store calls in flight, a bag
    interval,     \* the setInterval of the auto-refresh effect
    early,        \* the 3000 ms setTimeout of the initial-load effect
    late,         \* the 10000 ms setTimeout of the initial-load effect
    follow,       \* the 2000 ms setTimeouts of handleRefresh, oldest first
    ledger,       \* what the RPC node would answer now, by wallet
    priceData,    \* component state: priceData, a map from symbols to prices
    fetches,      \* the fetchPriceData calls in flight, a bag
    last          \* history: the store call that returned in the step just taken

vars == <<balances, isLoading, publicKey, autoRefresh, lastUpdated, tasks,
          interval, early, late, follow, ledger, priceData, fetches, last>>

---------------------------------------------------------------------------
(* Bounds of the model *)

MaxTasks == 2       \* store calls and price fetches in flight at once
MaxAge == 1         \* a Date's age is counted up to MaxAge * BACKOFF_MS
NumWallets == 1     \* wallet identities
MaxFollow == 1      \* manual refreshes whose follow-up has not fired yet
MaxLamports == 1    \* ledger SOL amounts are 0..MaxLamports half-SOLs
MaxGold == 1        \* ledger GOLD amounts are 0..MaxGold half-GOLDs
MaxPrice == 1       \* quoted prices are 0..MaxPrice
MaxQuotes == 2      \* entries of the price list of a response

(* Constants of the program *)

LAMPORTS_PER_SOL == 1000000000
GOLD_DECIMALS == 9
MAX_ATTEMPTS == 3
BACKOFF_MS == 1000
FOLLOWUP_MS == 2000
EARLY_MS == 3000
LATE_MS == 10000
refreshInterval == 10000

---------------------------------------------------------------------------
(* Values *)

NoKey == 0
Wallets == 1..NumWallets
NoDate == -1
Symbols == {"SOL", "GOLD"}

RECURSIVE GCD(_, _)
GCD(a, b) == IF b = 0 THEN a ELSE GCD(b, a % b)

\* JavaScript's n / d on the amounts of this model, as a reduced fraction.
Quotient(n, d) == LET g == GCD(n, d) IN <<n \div g, d \div g>>

RECURSIVE Pow10(_)
Pow10(k) == IF k = 0 THEN 1 ELSE 10 * Pow10(k - 1)

Zero == <<0, 1>>

\* The conversion with the amount read as what is left above one SOL.
ToSolAboveOne(lamports) ==
    Quotient(lamports - LAMPORTS_PER_SOL, LAMPORTS_PER_SOL)

\* solBalance / LAMPORTS_PER_SOL
ToSol(lamports) == Quotient(lamports, LAMPORTS_PER_SOL)

\* Number(tokenAccountInfo.amount) / Math.pow(10, TOKENS.GOLD.decimals)
ToGold(amount) == Quotient(amount, Pow10(GOLD_DECIMALS))

LamportValues == {k * (LAMPORTS_PER_SOL \div 2) : k \in 0..MaxLamports}
GoldValues == {k * (Pow10(GOLD_DECIMALS) \div 2) : k \in 0..MaxGold}

\* The associated token account of the wallet on the ledger.
AccountStates == {"absent", "empty", "badowner", "valid"}

\* accountInfo, accountInfo.data.length > 0, accountInfo.owner.equals(TOKEN_PROGRAM_ID)
Exists(acct) == acct # "absent"
HasData(acct) == acct \in {"badowner", "valid"}
OwnedByTokenProgram(acct) == acct \in {"empty", "valid"}

Ledgers ==
    {l \in [lamports : LamportValues, acct : AccountStates, amount : GoldValues] :
        l.acct # "valid" => l.amount = 0}

\* A timer: whether it is set, the publicKey its callback closed over, and
\* the time left until it fires.
NoTimer == [on |-> FALSE, wallet |-> NoKey, left |-> 0]
Timer(w, delay) == [on |-> TRUE, wallet |-> w, left |-> delay]

NoLast == [op |-> "none"]

\* The detail of the balanceUpdated event of a call that dispatched none.
NoDetail == [SOL |-> <<-1, 1>>, GOLD |-> <<-1, 1>>]

InFlight == BagToSet(tasks)
Put(bag, tk) == bag (+) SetToBag({tk})
Take(bag, tk) == bag (-) SetToBag({tk})

\* How many elements of bag, copies counted, are in the set S.
CountIn(bag, S) ==
    LET sum[T \in SUBSET S] ==
            IF T = {} THEN 0
            ELSE LET x == CHOOSE y \in T : TRUE
                 IN  CopiesIn(x, bag) + sum[T \ {x}]
    IN  sum[S]

---------------------------------------------------------------------------
(* The store: useTokenBalanceStore *)

\* A call of getTokenBalance ("one") or getAllTokenBalances ("all") that has
\* started.  pc is the await it is suspended at; i, solAmount and goldAmount
\* are the locals of the code (getTokenBalance's `balance` is solAmount or
\* goldAmount by symbol); wait is the time left of a back-off; caller is
\* the function that awaits the call and goes on when it returns
\* (refreshBalances, handleRefresh) or "other".  The other fields are
\* history: attempts made, attempts failed, whether a read succeeded and
\* what it read, whether the token account was valid on the ledger at any
\* time during the call, whether the call started for a wallet that was
\* not the connected one, and whether a call that started after this one
\* has published while this one was in flight.
NewTask(op, sym, w, caller, pk) ==
    [op |-> op, sym |-> sym, wallet |-> w, caller |-> caller,
     pc |-> IF op = "all" \/ sym = "SOL" THEN "sol_call" ELSE "gold_info",
     i |-> 0, wait |-> 0, solAmount |-> Zero, goldAmount |-> Zero,
     solTries |-> IF op = "all" \/ sym = "SOL" THEN 1 ELSE 0,
     goldTries |-> IF op = "all" \/ sym = "SOL" THEN 0 ELSE 1,
     solFails |-> 0, goldFails |-> 0, solOk |-> FALSE, goldOk |-> FALSE,
     solRead |-> -1, goldRead |-> -1,
     acctWasValid |-> ledger[w].acct = "valid",
     detached |-> pk # w,
     overtaken |-> FALSE]

\* set({ isLoading: true }) and the first await of the call; pk is the
\* connected wallet once the step is done.
Start(op, sym, w, caller, pk) ==
    /\ BagCardinality(tasks) + BagCardinality(fetches) < MaxTasks
    /\ tasks' = Put(tasks, NewTask(op, sym, w, caller, pk))
    /\ isLoading' = TRUE

\* A call that sets its SOL balance in the store as soon as it has it.
ContinuePublishing(tk0, tk) ==
    /\ tasks' = Put(Take(tasks, tk0), tk)
    /\ balances' = IF tk.op = "all" /\ tk.solOk
                   THEN [balances EXCEPT !.SOL = tk.solAmount] ELSE balances
    /\ UNCHANGED <<isLoading, publicKey, autoRefresh, lastUpdated,
                   interval, early, late, follow, ledger, priceData, fetches>>
    /\ last' = NoLast

\* The call tk0 stays suspended, at another await, as tk.
Continue(tk0, tk) ==
    /\ tasks' = Put(Take(tasks, tk0), tk)
    /\ UNCHANGED <<balances, isLoading, publicKey, autoRefresh, lastUpdated,
                   interval, early, late, follow, ledger,
                   priceData, fetches>>
    /\ last' = NoLast

\* History: the call x in flight once the call tk has returned with result.
\* The caller "second" starts its call while the call of "first" is in
\* flight.
NoteOvertaken(x, tk, result) ==
    IF result = "published" /\ tk.caller = "second" /\ x.caller = "first"
    THEN [x EXCEPT !.overtaken = TRUE] ELSE x

NoteOvertakenAll(bag, tk, result) ==
    [e \in {NoteOvertaken(x, tk, result) : x \in BagToSet(bag)} |->
        CountIn(bag, {x \in BagToSet(bag) : NoteOvertaken(x, tk, result) = e})]

\* The call tk0 returns, as tk: the store is left with newBal and isLoading
\* false, and the caller's continuation runs in the same turn:
\* handleBalanceUpdate when the event was dispatched and the listener is
\* attached, setLastUpdated in refreshBalances, the setTimeout of
\* handleRefresh.
Finish(tk0, tk, result, newBal, notified) ==
    LET dated == (notified /\ publicKey # NoKey) \/ tk.caller = "refreshBalances" IN
    /\ balances' = newBal
    /\ isLoading' = FALSE
    /\ tasks' = NoteOvertakenAll(Take(tasks, tk0), tk, result)
    /\ last' = [op |-> tk.op, sym |-> tk.sym, wallet |-> tk.wallet,
                caller |-> tk.caller, result |-> result, notified |-> notified,
                detail |-> IF notified
                           THEN [SOL |-> tk.solAmount, GOLD |-> tk.goldAmount]
                           ELSE NoDetail,
                dated |-> dated,
                solTries |-> tk.solTries, solFails |-> tk.solFails,
                solOk |-> tk.solOk, solRead |-> tk.solRead,
                goldTries |-> tk.goldTries, goldFails |-> tk.goldFails,
                goldOk |-> tk.goldOk, goldRead |-> tk.goldRead,
                acctWasValid |-> tk.acctWasValid, detached |-> tk.detached,
                overtaken |-> tk.overtaken,
                ledger |-> ledger[tk.wallet],
                attached |-> publicKey, before |-> balances, after |-> newBal]
    /\ lastUpdated' = IF dated THEN 0 ELSE lastUpdated
    /\ follow' = IF tk.caller = "handleRefresh"
                 THEN Append(follow, Timer(tk.wallet, FOLLOWUP_MS))
                 ELSE follow
    /\ UNCHANGED <<publicKey, autoRefresh, interval, early, late, ledger,
                   priceData, fetches>>

\* The publish step without its dispatchEvent.
PublishAllSilent(tk0, tk) ==
    Finish(tk0, tk, "published",
           [SOL |-> tk.solAmount, GOLD |-> tk.goldAmount], FALSE)

\* getAllTokenBalances, lines 172-195: set({balances, isLoading: false}) and
\* window.dispatchEvent(new CustomEvent('balanceUpdated', ...)).
PublishAll(tk0, tk) ==
    Finish(tk0, tk, "published",
           [SOL |-> tk.solAmount, GOLD |-> tk.goldAmount], TRUE)

\* The publish step without the spread of state.balances: the other
\* symbol goes back to its initial value.
PublishOneReplacing(tk0, tk) ==
    Finish(tk0, tk, "published",
           [[SOL |-> Zero, GOLD |-> Zero] EXCEPT ![tk.sym] =
                IF tk.sym = "SOL" THEN tk.solAmount ELSE tk.goldAmount],
           FALSE)

\* getTokenBalance, lines 83-89: set(state => ({balances: {...state.balances,
\* [tokenSymbol]: balance}, isLoading: false})).
PublishOne(tk0, tk) ==
    Finish(tk0, tk, "published",
           [balances EXCEPT ![tk.sym] =
                IF tk.sym = "SOL" THEN tk.solAmount ELSE tk.goldAmount],
           FALSE)

Publish(tk0, tk) ==
    IF tk.op = "one" THEN PublishOne(tk0, tk) ELSE PublishAll(tk0, tk)

\* The outer catch without its set: isLoading stays as it is.
FailKeepsLoading(tk0, tk) ==
    /\ tasks' = Take(tasks, tk0)
    /\ last' = [op |-> tk.op, result |-> "failed"]
    /\ UNCHANGED <<balances, isLoading, publicKey, autoRefresh, lastUpdated,
                   interval, early, late, follow, ledger, priceData, fetches>>

\* The call without its outer catch: the error of the last SOL attempt
\* leaves the call as a rejected promise.
FailUncaught(tk0, tk) == Finish(tk0, tk, "rejected", balances, FALSE)

\* The outer catch of either call: set({ isLoading: false }).
Fail(tk0, tk) == Finish(tk0, tk, "failed", balances, FALSE)

\* The SOL loop without its break: a read that succeeded before the last
\* attempt is followed by the wait and the next attempt.
SolLoopNextNoBreak(i, ok) ==
    IF i = MAX_ATTEMPTS - 1
    THEN (IF ok THEN "break" ELSE "throw")
    ELSE "retry"

\* What the SOL loop does after attempt i: break, wait and retry, or throw.
SolLoopNext(i, ok) ==
    IF ok THEN "break" ELSE IF i = MAX_ATTEMPTS - 1 THEN "throw" ELSE "retry"

\* What the GOLD loop does after attempt i: break, wait and retry, or set
\* the amount to 0 and leave the loop.
GoldLoopNext(i, ok) ==
    IF ok THEN "break" ELSE IF i = MAX_ATTEMPTS - 1 THEN "zero" ELSE "retry"

\* connection.getBalance(publicKey, 'confirmed') answers or throws.
SolResponse(tk) ==
    /\ tk.pc = "sol_call"
    /\ \E ok \in BOOLEAN :
         LET nx == SolLoopNext(tk.i, ok)
             tk1 == IF ok
                    THEN [tk EXCEPT !.solOk = TRUE,
                                    !.solRead = ledger[tk.wallet].lamports,
                                    !.solAmount = ToSol(ledger[tk.wallet].lamports)]
                    ELSE [tk EXCEPT !.solFails = @ + 1]
         IN  CASE nx = "break" ->
                    IF tk.op = "one"
                    THEN PublishOne(tk, tk1)
                    ELSE Continue(tk, [tk1 EXCEPT !.pc = "gold_info", !.i = 0,
                                                  !.goldTries = 1])
               [] nx = "retry" ->
                    Continue(tk, [tk1 EXCEPT !.pc = "sol_wait",
                                             !.wait = BACKOFF_MS])
               [] nx = "throw" -> Fail(tk, tk1)

\* The end of an attempt of the GOLD loop: the break, or the catch.
GoldAttemptEnds(tk0, tk, ok) ==
    LET nx == GoldLoopNext(tk.i, ok)
        tk1 == IF ok THEN [tk EXCEPT !.goldOk = TRUE]
               ELSE [tk EXCEPT !.goldFails = @ + 1]
    IN  CASE nx = "break" -> Publish(tk0, tk1)
          [] nx = "retry" ->
               Continue(tk0, [tk1 EXCEPT !.pc = "gold_wait",
                                         !.wait = BACKOFF_MS])
          [] nx = "zero" -> Publish(tk0, [tk1 EXCEPT !.goldAmount = Zero])

\* Does the call go on to getAccount after getAccountInfo answered?
\* getTokenBalance line 62; getAllTokenBalances lines 145 and 148.
ReadsAccount(op, acct) ==
    IF op = "one" THEN Exists(acct)
    ELSE Exists(acct) /\ HasData(acct) /\ OwnedByTokenProgram(acct)

\* getAssociatedTokenAddress and connection.getAccountInfo answer, or one
\* of them throws.
GoldInfoResponse(tk) ==
    /\ tk.pc = "gold_info"
    /\ \E ok \in BOOLEAN :
         IF ~ok THEN GoldAttemptEnds(tk, tk, FALSE)
         ELSE IF ReadsAccount(tk.op, ledger[tk.wallet].acct)
              THEN Continue(tk, [tk EXCEPT !.pc = "gold_acct"])
              ELSE GoldAttemptEnds(tk, [tk EXCEPT !.goldAmount = Zero], TRUE)

\* getAccount(connection, tokenAccount) answers with the amount; it throws
\* when the request fails and when the account is no valid token account.
GoldAcctResponse(tk) ==
    /\ tk.pc = "gold_acct"
    /\ \E ok \in BOOLEAN :
         IF ok /\ ledger[tk.wallet].acct = "valid"
         THEN GoldAttemptEnds(tk,
                  [tk EXCEPT !.goldRead = ledger[tk.wallet].amount,
                             !.goldAmount = ToGold(ledger[tk.wallet].amount)],
                  TRUE)
         ELSE GoldAttemptEnds(tk, tk, FALSE)

\* The setTimeout(resolve, 1000) of a catch fires: i++ and the next attempt.
Backoff(tk) ==
    /\ tk.pc \in {"sol_wait", "gold_wait"}
    /\ tk.wait = 0
    /\ IF tk.pc = "sol_wait"
       THEN Continue(tk, [tk EXCEPT !.pc = "sol_call", !.i = @ + 1,
                                    !.solTries = @ + 1])
       ELSE Continue(tk, [tk EXCEPT !.pc = "gold_info", !.i = @ + 1,
                                    !.goldTries = @ + 1])

---------------------------------------------------------------------------
(* Callers of the store outside the component *)

\* getTokenBalance(publicKey, connection, tokenSymbol)
getTokenBalance(w, sym) ==
    /\ Start("one", sym, w, "other", publicKey)
    /\ UNCHANGED <<balances, publicKey, autoRefresh, lastUpdated, interval,
                   early, late, follow, ledger,
                   priceData, fetches>>
    /\ last' = NoLast

\* getAllTokenBalances(publicKey, connection) with both arguments present.
getAllTokenBalances(w) ==
    /\ Start("all", "SOL", w, "other", publicKey)
    /\ UNCHANGED <<balances, publicKey, autoRefresh, lastUpdated, interval,
                   early, late, follow, ledger,
                   priceData, fetches>>
    /\ last' = NoLast

\* getAllTokenBalances without a publicKey or without a connection:
\* set({ isLoading: false }) and return.
getAllTokenBalancesNoArgs ==
    /\ isLoading' = FALSE
    /\ UNCHANGED <<balances, publicKey, autoRefresh, lastUpdated, tasks,
                   interval, early, late, follow, ledger,
                   priceData, fetches>>
    /\ last' = NoLast

\* Two callers of getAllTokenBalances whose calls overlap, as the timers
\* of the component do: the first calls when no call is in flight.
FirstCaller(w) ==
    /\ BagCardinality(tasks) = 0
    /\ Start("all", "SOL", w, "first", publicKey)
    /\ UNCHANGED <<balances, publicKey, autoRefresh, lastUpdated, interval,
                   early, late, follow, ledger, priceData, fetches>>
    /\ last' = NoLast

\* The second calls while the call of the first is in flight.
SecondCaller(w) ==
    /\ \E tk \in InFlight : tk.caller = "first"
    /\ Start("all", "SOL", w, "second", publicKey)
    /\ UNCHANGED <<balances, publicKey, autoRefresh, lastUpdated, interval,
                   early, late, follow, ledger, priceData, fetches>>
    /\ last' = NoLast

---------------------------------------------------------------------------
(* The component: BalanceTracker *)

\* Both effects run for publicKey w: setInterval(refreshBalances,
\* refreshInterval) when autoRefresh, then getAllTokenBalances and the two
\* setTimeouts.  When they ran before, their cleanups run first:
\* clearInterval and clearTimeout replace the old timers.  (fetchPriceData,
\* called here and at the end of refreshBalances, reads and writes
\* priceData only and shares no state with the store or the timers: its
\* calls are the action fetchPriceData of the price cache below.)
RunEffects(w) ==
    /\ publicKey' = w
    /\ interval' = IF autoRefresh THEN Timer(w, refreshInterval) ELSE NoTimer
    /\ Start("all", "SOL", w, "other", w)
    /\ early' = Timer(w, EARLY_MS)
    /\ late' = Timer(w, LATE_MS)
    /\ UNCHANGED <<balances, autoRefresh, lastUpdated, follow, ledger,
                   priceData, fetches>>
    /\ last' = NoLast

\* The wallet connects.
Connect(w) ==
    /\ publicKey = NoKey
    /\ RunEffects(w)

\* The wallet's account changes, or the connection does (w = publicKey).
Switch(w) ==
    /\ publicKey # NoKey
    /\ RunEffects(w)

\* The wallet disconnects: the cleanups of both effects.
Disconnect ==
    /\ publicKey # NoKey
    /\ publicKey' = NoKey
    /\ interval' = NoTimer
    /\ early' = NoTimer
    /\ late' = NoTimer
    /\ UNCHANGED <<balances, isLoading, autoRefresh, lastUpdated, tasks,
                   follow, ledger,
                   priceData, fetches>>
    /\ last' = NoLast

\* Calls of handleRefresh that have not set their timeout yet.
Manual == CountIn(tasks, {tk \in InFlight : tk.caller = "handleRefresh"})

\* A click on the refresh button, which is rendered when publicKey is set
\* and disabled while isLoading.
handleRefresh ==
    /\ publicKey # NoKey
    /\ ~isLoading
    /\ Len(follow) + Manual < MaxFollow
    /\ Start("all", "SOL", publicKey, "handleRefresh", publicKey)
    /\ UNCHANGED <<balances, publicKey, autoRefresh, lastUpdated, interval,
                   early, late, follow, ledger,
                   priceData, fetches>>
    /\ last' = NoLast

\* The interval fires: refreshBalances.
refreshBalances ==
    /\ interval.on
    /\ interval.left = 0
    /\ Start("all", "SOL", interval.wallet, "refreshBalances", publicKey)
    /\ interval' = [interval EXCEPT !.left = refreshInterval]
    /\ UNCHANGED <<balances, publicKey, autoRefresh, lastUpdated, early, late,
                   follow, ledger,
                   priceData, fetches>>
    /\ last' = NoLast

\* The 3000 ms timeout of the initial-load effect fires.
EarlyRefresh ==
    /\ early.on
    /\ early.left = 0
    /\ Start("all", "SOL", early.wallet, "other", publicKey)
    /\ early' = NoTimer
    /\ UNCHANGED <<balances, publicKey, autoRefresh, lastUpdated, interval,
                   late, follow, ledger,
                   priceData, fetches>>
    /\ last' = NoLast

\* The 10000 ms timeout of the initial-load effect fires.
LateRefresh ==
    /\ late.on
    /\ late.left = 0
    /\ Start("all", "SOL", late.wallet, "other", publicKey)
    /\ late' = NoTimer
    /\ UNCHANGED <<balances, publicKey, autoRefresh, lastUpdated, interval,
                   early, follow, ledger,
                   priceData, fetches>>
    /\ last' = NoLast

\* The 2000 ms timeout of handleRefresh fires.
SecondaryRefresh ==
    /\ follow # <<>>
    /\ Head(follow).left = 0
    /\ Start("all", "SOL", Head(follow).wallet, "other", publicKey)
    /\ follow' = Tail(follow)
    /\ UNCHANGED <<balances, publicKey, autoRefresh, lastUpdated, interval,
                   early, late, ledger,
                   priceData, fetches>>
    /\ last' = NoLast

---------------------------------------------------------------------------
(* The price cache: priceData and fetchPriceData *)

\* priceData is a JavaScript object: a function from the keys it has to
\* their values.  Reading a key it does not have gives undefined.
Undefined == -1
PriceOf(pd, sym) == IF sym \in DOMAIN pd THEN pd[sym] ELSE Undefined

PriceValues == 0..MaxPrice

\* data.data.prices of a response: a list of {symbol, price}.
Quotes == [symbol : Symbols, price : PriceValues]
PriceLists == UNION {[1..n -> Quotes] : n \in 0..MaxQuotes}

\* What response.json() gives: a body that does not parse, or an object
\* with success and, when it has them, data.prices.
NoPrices == <<[symbol |-> "none", price |-> Undefined]>>
Unparsable == [parses |-> FALSE]
Bodies ==
    {Unparsable} \cup
    [parses : {TRUE}, success : BOOLEAN, prices : PriceLists \cup {NoPrices}]

\* const priceMap = {}; data.data.prices.forEach(price =>
\*     priceMap[price.symbol] = price.price)
RECURSIVE PriceMap(_)
PriceMap(prices) ==
    IF prices = <<>> THEN <<>>
    ELSE LET n == Len(prices)
             m == PriceMap(SubSeq(prices, 1, n - 1))
             q == prices[n]
         IN  [sym \in DOMAIN m \cup {q.symbol} |->
                 IF sym = q.symbol THEN q.price ELSE m[sym]]

\* if (data.success && data.data?.prices)
HasPrices(body) == body.success /\ body.prices # NoPrices

\* The catch of fetchPriceData: console.error, and priceData as it is.
PriceAfterCatchReset(pd) == [SOL |-> 0, GOLD |-> 0]

PriceAfterCatch(pd) == pd

\* The call f of fetchPriceData returns: priceData is left as pd.
FinishFetch(f, result, transport, body, pd) ==
    /\ priceData' = pd
    /\ fetches' = Take(fetches, f)
    /\ last' = [op |-> "price", result |-> result, transport |-> transport,
                body |-> body, before |-> priceData, after |-> pd]
    /\ UNCHANGED <<balances, isLoading, publicKey, autoRefresh, lastUpdated,
                   tasks, interval, early, late, follow, ledger>>

\* fetchPriceData(), called by the initial-load effect and by
\* refreshBalances: fetch('/api/market/prices') is sent.
fetchPriceData ==
    /\ BagCardinality(tasks) + BagCardinality(fetches) < MaxTasks
    /\ fetches' = Put(fetches, [pc |-> "fetch"])
    /\ UNCHANGED <<balances, isLoading, publicKey, autoRefresh, lastUpdated,
                   tasks, interval, early, late, follow, ledger, priceData>>
    /\ last' = NoLast

\* fetch answers with a response, or rejects.
FetchResponse(f) ==
    /\ f.pc = "fetch"
    /\ \E ok \in BOOLEAN :
         IF ok
         THEN /\ fetches' = Put(Take(fetches, f), [f EXCEPT !.pc = "json"])
              /\ UNCHANGED <<balances, isLoading, publicKey, autoRefresh,
                             lastUpdated, tasks, interval, early, late,
                             follow, ledger, priceData>>
              /\ last' = NoLast
         ELSE FinishFetch(f, "caught", TRUE, Unparsable,
                          PriceAfterCatch(priceData))

\* response.json() answers with the body, or rejects; then the if and
\* setPriceData(priceMap).
JsonResponse(f) ==
    /\ f.pc = "json"
    /\ \E body \in Bodies :
         IF ~body.parses
         THEN FinishFetch(f, "caught", TRUE, body, PriceAfterCatch(priceData))
         ELSE IF HasPrices(body)
              THEN FinishFetch(f, "set", FALSE, body, PriceMap(body.prices))
              ELSE FinishFetch(f, "skipped", FALSE, body, priceData)

---------------------------------------------------------------------------
(* The environment *)

Waiting == {tk \in InFlight : tk.pc \in {"sol_wait", "gold_wait"}}

\* A timer is due: it runs before the clock moves on.
SomethingDue ==
    \/ interval.on /\ interval.left = 0
    \/ early.on /\ early.left = 0
    \/ late.on /\ late.left = 0
    \/ follow # <<>> /\ Head(follow).left = 0
    \/ \E tk \in Waiting : tk.wait = 0

\* The passing of time shows: a timer is set, or a Date ages.
TimeShows ==
    \/ interval.on \/ early.on \/ late.on \/ follow # <<>> \/ Waiting # {}
    \/ lastUpdated # NoDate /\ lastUpdated < MaxAge * BACKOFF_MS

Elapse(timer) ==
    IF timer.on THEN [timer EXCEPT !.left = @ - BACKOFF_MS] ELSE timer

ElapseTask(tk) ==
    IF tk.pc \in {"sol_wait", "gold_wait"}
    THEN [tk EXCEPT !.wait = @ - BACKOFF_MS] ELSE tk

\* The calls in flight, BACKOFF_MS later.
ElapseTasks(bag) ==
    [e \in {ElapseTask(x) : x \in BagToSet(bag)} |->
        CountIn(bag, {x \in BagToSet(bag) : ElapseTask(x) = e})]

\* BACKOFF_MS go by.
Tick ==
    /\ TimeShows
    /\ ~SomethingDue
    /\ interval' = Elapse(interval)
    /\ early' = Elapse(early)
    /\ late' = Elapse(late)
    /\ follow' = [k \in DOMAIN follow |-> Elapse(follow[k])]
    /\ tasks' = ElapseTasks(tasks)
    /\ lastUpdated' = IF lastUpdated = NoDate \/ lastUpdated >= MaxAge * BACKOFF_MS
                      THEN lastUpdated ELSE lastUpdated + BACKOFF_MS
    /\ UNCHANGED <<balances, isLoading, publicKey, autoRefresh, ledger,
                   priceData, fetches>>
    /\ last' = NoLast

\* History: the call tk once the ledger of wallet w is l.
NoteLedger(tk, w, l) ==
    IF tk.wallet = w /\ l.acct = "valid"
    THEN [tk EXCEPT !.acctWasValid = TRUE] ELSE tk

NoteLedgerAll(bag, w, l) ==
    [e \in {NoteLedger(x, w, l) : x \in BagToSet(bag)} |->
        CountIn(bag, {x \in BagToSet(bag) : NoteLedger(x, w, l) = e})]

\* The wallet's balance or its token account changes on the ledger.
LedgerUpdate(w, l) ==
    /\ l # ledger[w]
    /\ ledger' = [ledger EXCEPT ![w] = l]
    /\ tasks' = NoteLedgerAll(tasks, w, l)
    /\ UNCHANGED <<balances, isLoading, publicKey, autoRefresh, lastUpdated,
                   interval, early, late, follow,
                   priceData, fetches>>
    /\ last' = NoLast

---------------------------------------------------------------------------
(* Specifications *)

\* The state after the store is created and the component is mounted with
\* no wallet connected.
Mounted ==
    /\ balances = [SOL |-> Zero, GOLD |-> Zero]
    /\ isLoading = FALSE
    /\ publicKey = NoKey
    /\ lastUpdated = NoDate
    /\ tasks = EmptyBag
    /\ interval = NoTimer
    /\ early = NoTimer
    /\ late = NoTimer
    /\ follow = <<>>
    /\ priceData = [SOL |-> 0, GOLD |-> 0]
    /\ fetches = EmptyBag
    /\ last = NoLast

StoreStep ==
    \/ \E tk \in InFlight : SolResponse(tk)
    \/ \E tk \in InFlight : GoldInfoResponse(tk)
    \/ \E tk \in InFlight : GoldAcctResponse(tk)
    \/ \E tk \in InFlight : Backoff(tk)

TrackerStep ==
    \/ \E w \in Wallets : Connect(w)
    \/ \E w \in Wallets : Switch(w)
    \/ Disconnect
    \/ handleRefresh
    \/ refreshBalances
    \/ EarlyRefresh
    \/ LateRefresh
    \/ SecondaryRefresh

EnvStep ==
    \/ Tick
    \/ \E w \in Wallets, l \in Ledgers : LedgerUpdate(w, l)

ApiStep ==
    \/ \E w \in Wallets, sym \in Symbols : getTokenBalance(w, sym)
    \/ \E w \in Wallets : getAllTokenBalances(w)
    \/ getAllTokenBalancesNoArgs

\* The store and its callers, on a ledger that changes; no wallet connects
\* to the component.
Init ==
    /\ Mounted
    /\ autoRefresh = TRUE
    /\ ledger \in [Wallets -> Ledgers]

Next ==
    \/ StoreStep
    \/ ApiStep
    \/ EnvStep

Spec == Init /\ [][Next]_vars

\* The component drives the store, on a ledger that holds the largest
\* amounts of the model and does not change.
TrackerLedgers ==
    {l \in Ledgers : /\ l.lamports = MaxLamports * (LAMPORTS_PER_SOL \div 2)
                     /\ l.acct = "valid"
                     /\ l.amount = MaxGold * (Pow10(GOLD_DECIMALS) \div 2)}

InitTracker ==
    /\ Mounted
    /\ autoRefresh \in BOOLEAN
    /\ ledger \in [Wallets -> TrackerLedgers]

NextTracker ==
    \/ StoreStep
    \/ TrackerStep
    \/ Tick

SpecTracker == InitTracker /\ [][NextTracker]_vars

OrderStep ==
    \/ \E w \in Wallets : FirstCaller(w)
    \/ \E w \in Wallets : SecondCaller(w)

\* The store and two callers whose getAllTokenBalances calls overlap, on a
\* ledger that changes.
NextOrder ==
    \/ StoreStep
    \/ OrderStep
    \/ EnvStep

SpecOrder == Init /\ [][NextOrder]_vars

\* The store and its callers on a ledger that does not change, where every
\* RPC request is answered in the end and every setTimeout fires in the end.
NextLive ==
    \/ StoreStep
    \/ ApiStep
    \/ Tick

SpecLive ==
    /\ InitTracker
    /\ [][NextLive]_vars
    /\ WF_vars(StoreStep)
    /\ WF_vars(Tick)

PriceStep ==
    \/ fetchPriceData
    \/ \E f \in BagToSet(fetches) : FetchResponse(f)
    \/ \E f \in BagToSet(fetches) : JsonResponse(f)

\* The store and the price cache with their callers, on a ledger that does
\* not change.
NextPrice ==
    \/ StoreStep
    \/ ApiStep
    \/ PriceStep
    \/ Tick

SpecPrice == InitTracker /\ [][NextPrice]_vars

---------------------------------------------------------------------------
(* Properties *)

Returned == last.op # "none"

\* The getAllTokenBalances calls in flight for wallet w.
CyclesInFlight(w) ==
    CountIn(tasks, {tk \in InFlight : tk.op = "all" /\ tk.wallet = w})

\* C1: at most one refresh cycle (a getAllTokenBalances call that has
\* started and not returned) is in flight for a wallet, whatever triggers
\* fire.
C1_OneCycleInFlight == \A w \in Wallets : CyclesInFlight(w) <= 1

\* C2: a fetch whose read fails on every attempt makes exactly MAX_ATTEMPTS
\* attempts and then yields 0 as its result, for SOL and for GOLD, in both
\* calls: the call goes on and publishes 0 for that asset.
C2_ExhaustedYieldsFallback ==
    Returned =>
        /\ (last.solTries > 0 /\ ~last.solOk) =>
                /\ last.solTries = MAX_ATTEMPTS
                /\ last.result = "published"
                /\ last.after.SOL = Zero
        /\ (last.goldTries > 0 /\ ~last.goldOk) =>
                /\ last.goldTries = MAX_ATTEMPTS
                /\ last.result = "published"
                /\ last.after.GOLD = Zero

\* C3: a fetch whose read fails exactly k < MAX_ATTEMPTS times and then
\* succeeds yields the value of the successful read, which the call
\* publishes, and makes no more than k + 1 attempts.
C3_SuccessAfterFailures ==
    Returned =>
        /\ (last.solOk /\ last.solFails < MAX_ATTEMPTS) =>
                /\ last.solTries <= last.solFails + 1
                /\ last.result = "published"
                /\ last.after.SOL = Quotient(last.solRead, LAMPORTS_PER_SOL)
        /\ (last.goldOk /\ last.goldFails < MAX_ATTEMPTS) =>
                /\ last.goldTries <= last.goldFails + 1
                /\ last.result = "published"
                /\ last.after.GOLD =
                       IF last.goldRead >= 0
                       THEN Quotient(last.goldRead, Pow10(GOLD_DECIMALS))
                       ELSE Zero

\* C3 happens: a getAllTokenBalances call returned whose SOL read and whose
\* GOLD read each failed twice and then succeeded with an amount above 0.
C3_Witness ==
    /\ Returned
    /\ last.op = "all"
    /\ last.solOk /\ last.solFails = 2 /\ last.solRead > 0
    /\ last.goldOk /\ last.goldFails = 2 /\ last.goldRead > 0
    /\ last.after.SOL # Zero /\ last.after.GOLD # Zero

\* C4: after getTokenBalance returns with all MAX_ATTEMPTS attempts failed,
\* the stored balance of its symbol is 0, whatever was stored before.
C4_ExhaustedStoresZero ==
    (/\ Returned
     /\ last.op = "one"
     /\ IF last.sym = "SOL" THEN last.solFails = MAX_ATTEMPTS
                            ELSE last.goldFails = MAX_ATTEMPTS)
        => last.after[last.sym] = Zero

\* C5: in one getAllTokenBalances call, when one asset's fetch exhausts its
\* attempts and the other asset's read succeeds with v (for GOLD after an
\* exhausted SOL fetch: the token account holds v when the SOL fetch
\* ends), the other asset's fetch is performed and v is stored for it.
C5_FetchesIndependent ==
    (Returned /\ last.op = "all") =>
        /\ (last.goldFails = MAX_ATTEMPTS /\ last.solOk) =>
                last.after.SOL = Quotient(last.solRead, LAMPORTS_PER_SOL)
        /\ (last.solFails = MAX_ATTEMPTS /\ last.ledger.acct = "valid") =>
                /\ last.goldTries > 0
                /\ last.after.GOLD =
                       Quotient(last.ledger.amount, Pow10(GOLD_DECIMALS))

\* C6: a refresh cycle that started for the connected wallet and returns
\* when that wallet is no longer the connected one publishes nothing: the
\* balances stay as they were and no balanceUpdated event is dispatched.
C6_DetachedResultDiscarded ==
    (/\ Returned
     /\ last.op = "all"
     /\ ~last.detached
     /\ last.attached # last.wallet)
        => /\ last.result # "published"
           /\ ~last.notified
           /\ last.after = last.before

\* C7: no refresh cycle is started for a wallet that is not the connected
\* one: every timer set for it was cancelled when it detached.
C7_NoCycleAfterDetach == \A tk \in InFlight : tk.op = "all" => ~tk.detached

\* C8: a refresh cycle that fails (its SOL read exhausts its attempts and
\* nothing is published) does not set lastUpdated, whatever started it.
C8_FailedCycleKeepsDate ==
    (Returned /\ last.op = "all" /\ last.result = "failed") => ~last.dated

\* C9: a click on the refresh button starts no getAllTokenBalances call
\* while another call is in flight.
C9_ManualNotWhileRunning ==
    [][Manual' > Manual => BagCardinality(tasks) = 0]_vars

\* C10: when the token account is absent, empty or not owned by the token
\* program all through a getTokenBalance call for GOLD or a
\* getAllTokenBalances call, the call returns with the GOLD balance 0.
C10_InvalidAccountStoresZero ==
    (/\ Returned
     /\ last.op = "all" \/ last.sym = "GOLD"
     /\ ~last.acctWasValid)
        => last.after.GOLD = Zero

\* A call of fetchPriceData returned in the step just taken.
PriceReturned == last.op = "price"

\* C11: when fetch or response.json() throws, priceData after
\* fetchPriceData equals priceData before it, whatever it held.
C11_FailureKeepsPrices ==
    (PriceReturned /\ last.transport) => last.after = last.before

\* C11 happens: a fetchPriceData call whose response did not parse returned
\* with a cache that an earlier response had filled.
C11_Witness ==
    /\ PriceReturned
    /\ last.transport
    /\ last.before # [SOL |-> 0, GOLD |-> 0]
    /\ priceData = last.before

\* C12: while a wallet stays connected, the refresh cycles the component's
\* timers start are one at 3000 ms, one at 10000 ms and one every 10000 ms:
\* no two of these timers are due at the same instant.
C12_OneTimerDueAtATime ==
    ~(/\ late.on /\ late.left = 0
      /\ interval.on /\ interval.left = 0)

\* The time a call that returned spent in back-off waits: one wait before
\* every attempt but the first of each loop.
Waited(l) ==
    BACKOFF_MS * ((IF l.solTries > 0 THEN l.solTries - 1 ELSE 0)
                  + (IF l.goldTries > 0 THEN l.goldTries - 1 ELSE 0))

\* C13: the follow-up cycle of a click on the refresh button is due
\* FOLLOWUP_MS after the click, however long the first cycle took: when the
\* first cycle returns, the time it spent waiting and the time left on the
\* follow-up timer add up to FOLLOWUP_MS.
C13_FollowUpAfterTrigger ==
    (Returned /\ last.caller = "handleRefresh") =>
        /\ follow # <<>>
        /\ Waited(last) + follow[Len(follow)].left = FOLLOWUP_MS

\* A call of getTokenBalance or getAllTokenBalances returned in the step
\* just taken.
StoreReturned == last.op \in {"one", "all"}

\* C14: whatever reads fail, getTokenBalance, getAllTokenBalances and
\* fetchPriceData return normally: none of them ends as a rejected promise.
C14_NoFailureEscapes ==
    (StoreReturned \/ PriceReturned) => last.result # "rejected"

\* C14 happens: a getAllTokenBalances call returned after every read of its
\* SOL loop failed.
C14_Witness ==
    /\ StoreReturned
    /\ last.op = "all"
    /\ last.solFails = MAX_ATTEMPTS
    /\ last.result = "failed"

\* Is the rational q, a reduced fraction, at least 0?
NonNegative(q) == q[1] >= 0 /\ q[2] > 0

\* C15: after any sequence of getTokenBalance and getAllTokenBalances calls,
\* with any mix of reads that succeed and fail on a ledger of non-negative
\* amounts, the stored balance of SOL and of GOLD is at least 0.
C15_BalancesNonNegative == \A sym \in Symbols : NonNegative(balances[sym])

\* C15 happens: a call published, after a failed read, a SOL balance above 0
\* next to a GOLD balance above 0.
C15_Witness ==
    /\ StoreReturned
    /\ last.result = "published"
    /\ last.solFails + last.goldFails > 0
    /\ balances.SOL[1] > 0
    /\ balances.GOLD[1] > 0

\* C16: every started call of getTokenBalance or getAllTokenBalances ends,
\* whatever its reads answer, once every read and every back-off wait
\* returns: while calls are in flight one of them returns in the end, and
\* isLoading is false whenever no call is in flight.
C16_CycleFinishes ==
    /\ [](BagCardinality(tasks) = 0 => ~isLoading)
    /\ (BagCardinality(tasks) > 0) ~> StoreReturned

\* C16 happens: a getAllTokenBalances call returned after its SOL loop was
\* exhausted, no call is in flight any more and isLoading is false.
C16_Witness ==
    /\ StoreReturned
    /\ last.op = "all"
    /\ last.solFails = MAX_ATTEMPTS
    /\ BagCardinality(tasks) = 0
    /\ ~isLoading

\* C17: a getAllTokenBalances call changes the balances of the store in one
\* step only, its last, after its SOL read and its GOLD fetch have ended;
\* the balances it leaves are both its own.  No step in which a call stays
\* in flight changes a balance, so no snapshot holds one asset of a cycle
\* and not the other.
C17_SnapshotInOneStep ==
    [][balances' # balances =>
          /\ last'.op \in {"one", "all"}
          /\ last'.result = "published"
          /\ last'.op = "all" =>
                /\ last'.solOk
                /\ last'.goldTries > 0
                /\ balances'.SOL = Quotient(last'.solRead, LAMPORTS_PER_SOL)
                /\ balances'.GOLD =
                       IF last'.goldRead >= 0
                       THEN Quotient(last'.goldRead, Pow10(GOLD_DECIMALS))
                       ELSE Zero]_vars

\* C17 happens: a getAllTokenBalances call published, and both balances
\* changed in that step.
C17_Witness ==
    /\ StoreReturned
    /\ last.op = "all"
    /\ last.result = "published"
    /\ last.before.SOL # balances.SOL
    /\ last.before.GOLD # balances.GOLD

C19_OtherSymbolUnchanged ==
    (StoreReturned /\ last.op = "one") =>
        \A sym \in Symbols \ {last.sym} : last.after[sym] = last.before[sym]

\* C19 happens: a getTokenBalance call published while another call was in
\* flight, and the other symbol held a balance above 0.
C19_Witness ==
    /\ StoreReturned
    /\ last.op = "one"
    /\ last.result = "published"
    /\ BagCardinality(tasks) > 0
    /\ \E sym \in Symbols \ {last.sym} : balances[sym] # Zero

\* C20: after any fetchPriceData, priceData holds a price of at least 0 for
\* SOL and for GOLD, never undefined.
C20_PricesDefined ==
    \A sym \in Symbols : PriceOf(priceData, sym) >= 0

\* C21: isLoading is true whenever a call of getTokenBalance or
\* getAllTokenBalances has started and not returned, also when two calls
\* overlap and the first of them returns.
C21_LoadingWhileInFlight == BagCardinality(tasks) > 0 => isLoading

\* C22: a getAllTokenBalances call that started before another one and
\* returns after the other has published does not replace the balances in
\* the store with its own, older ones.
C22_NoStaleOverwrite ==
    (/\ StoreReturned
     /\ last.op = "all"
     /\ last.overtaken
     /\ last.result = "published")
        => last.after = last.before

====
